---- MODULE Spec2Model ----
(***************************************************************************)
(* The two CF-compliance converters of ilamb-jpl:                          *)
(*   convert_cardamom  (data/CARDAMOM/cardamom_to_cf.py)   quantile path   *)
(*   cf_compliant      (data/CarbonFluxes/convert.py)      ensemble path   *)
(* Each is a straight-line function; every statement is one action, and a  *)
(* raised exception ends the run (pc = "failed").                          *)
(*                                                                         *)
(* Python strings are sequences of one-character strings, so that          *)
(* str.replace and f-string concatenation are computed, not assumed.       *)
(* A date is a record [year, month, day].  A float whose value is a        *)
(* square root is the record [nan, radicand] (see Sqrt).                   *)
(***************************************************************************)
EXTENDS Integers, Sequences, FiniteSets, TLC

VARIABLES
    prog,         \* which script runs: "cardamom" or "jpl"
    pc,           \* the statement about to run, or "done" / "failed"
    err,          \* the exception that ended the run, or "none"
    input,        \* the dataset and arguments the function was called with
    tdim,         \* name of the time-like dimension of the working dataset
    time,         \* values of the time coordinate of the working dataset
    time_bounds,  \* the time_bounds variable, a sequence of <<lower, upper>>
    t,            \* cf_compliant's local array t
    tb,           \* cf_compliant's local array tb
    names,        \* data variables of the working dataset (keys of out / ds)
    attrs,        \* attrs of each data variable
    vals,         \* values of each data variable along time (convert_cardamom)
    gattrs,       \* global attributes of the output dataset
    file          \* the file convert_cardamom wrote, or NoFile

vars == <<prog, pc, err, input, tdim, time, time_bounds, t, tb, names, attrs,
          vals, gattrs, file>>

----------------------------------------------------------------------------
(* Bounds of the model *)

MaxLen == 2

Years == {2019, 2020}

Months == {1, 2, 11, 12}

\* day-of-month values of the input steps
Days == {1, 16, 31}

\* flux values at one point
Vals == {-1, 2, 3, 5}

\* quantile levels in percent: 25 is 0.25, 50 is 0.5, 75 is 0.75
Levels == {25, 50, 75}

----------------------------------------------------------------------------
(* String literals of the source *)

s_time == <<"t","i","m","e">>
s_time_fluxes == <<"t","i","m","e","_","f","l","u","x","e","s">>
s_n_months == <<"n","_","m","o","n","t","h","s">>
s_time_bounds == <<"t","i","m","e","_","b","o","u","n","d","s">>
s_gC == <<"g","C">>
s_g == <<"g">>
s_uncert == <<"_","u","n","c","e","r","t">>
s_std == <<"_","s","t","d">>
s_standard_error == <<" ","s","t","a","n","d","a","r","d","_","e","r","r","o","r">>
s_land == <<"l","a","n","d">>
s_ocean == <<"o","c","e","a","n">>
s_net == <<"n","e","t">>
s_nbp == <<"n","b","p">>
s_fgco2 == <<"f","g","c","o","2">>
s_gpp == <<"g","p","p">>
s_CARDAMOM_ == <<"C","A","R","D","A","M","O","M","_">>
s_nc == <<".","n","c">>
s_jpl_units == <<"g"," ","m","-","2"," ","y","e","a","r","-","1">>
s_days_since == <<"d","a","y","s"," ","s","i","n","c","e"," ",
                  "1","8","5","0","-","0","1","-","0","1">>

\* units strings an input variable may carry
u_gC_m2_day == <<"g","C"," ","m","-","2"," ","d","a","y","-","1">>
u_g_m2_day == <<"g"," ","m","-","2"," ","d","a","y","-","1">>
u_kgC_gC == <<"k","g","C"," ","g","C","-","1">>
u_mol == <<"m","o","l"," ","m","-","2">>

InputUnits == {u_gC_m2_day, u_g_m2_day, u_kgC_gC, u_mol}

\* names of the data variables of the merged JPL files (convert.py:144-150)
JplNames == {s_land, s_ocean, s_net, s_land \o s_std, s_ocean \o s_std,
             s_net \o s_std}

NoFile == [path |-> <<>>]

NoAttrs == [k \in {} |-> <<>>]

----------------------------------------------------------------------------
(* Library functions the source calls *)

\* str.replace(old, new): every non-overlapping occurrence, left to right
RECURSIVE Replace(_, _, _)
Replace(s, old, new) ==
    IF Len(s) < Len(old) THEN s
    ELSE IF SubSeq(s, 1, Len(old)) = old
         THEN new \o Replace(SubSeq(s, Len(old) + 1, Len(s)), old, new)
         ELSE <<Head(s)>> \o Replace(Tail(s), old, new)

\* month lengths of the 365-day "noleap" calendar
DaysInMonthNoLeap(m) ==
    CASE m \in {1, 3, 5, 7, 8, 10, 12} -> 31
      [] m \in {4, 6, 9, 11} -> 30
      [] OTHER -> 28

\* month lengths of the proleptic Gregorian calendar of datetime64
DaysInMonthGregorian(y, m) ==
    IF m = 2 /\ (y % 4 = 0 /\ (y % 100 # 0 \/ y % 400 = 0)) THEN 29
    ELSE DaysInMonthNoLeap(m)

\* cftime.DatetimeNoLeap(y, m, d) raises ValueError unless this holds
ValidNoLeap(y, m, d) ==
    /\ m \in 1..12
    /\ d \in 1..DaysInMonthNoLeap(m)

\* the value cftime.DatetimeNoLeap(y, m, d) constructs
DatetimeNoLeap(y, m, d) == [year |-> y, month |-> m, day |-> d]

\* days of the noleap year before month m
RECURSIVE DaysBefore(_)
DaysBefore(m) == IF m <= 1 THEN 0 ELSE DaysBefore(m - 1) + DaysInMonthNoLeap(m - 1)

\* CF encoding of a noleap date in "days since 1850-01-01"
Date2Num(d) == (d.year - 1850) * 365 + DaysBefore(d.month) + (d.day - 1)

\* CF decoding of "days since 1850-01-01" on the noleap calendar
Num2Date(n) ==
    LET y == 1850 + (n \div 365)
        doy == n % 365
        m == CHOOSE k \in 1..12 : DaysBefore(k) <= doy /\ doy < DaysBefore(k + 1)
    IN  [year |-> y, month |-> m, day |-> doy - DaysBefore(m) + 1]

\* np.sqrt of the real number n: the non-negative root of n, NaN below 0
Sqrt(n) == [nan |-> n < 0, radicand |-> IF n < 0 THEN 0 ELSE n]

----------------------------------------------------------------------------
(* Inputs *)

\* datetime64 values a time_fluxes coordinate can hold
GregorianDates ==
    {d \in [year : Years, month : Months, day : Days] :
        d.day <= DaysInMonthGregorian(d.year, d.month)}

\* (year, month, day) rows a start_date variable can hold
StartDateRows == [year : Years, month : Months, day : Days]

SeqsUpTo(S, n) == UNION {[1..k -> S] : k \in 0..n}

\* a two-step monthly axis that crosses the year end
DefaultSteps ==
    <<[year |-> 2019, month |-> 12, day |-> 1], [year |-> 2020, month |-> 1, day |-> 1]>>

\* the quantiles (2, 3, 5) at each of n points, on the levels in Q
DefaultVar(Q, n) ==
    [q \in Q |-> [i \in 1..n |-> CASE q = 25 -> 2 [] q = 50 -> 3 [] OTHER -> 5]]

UnitsAttr(u) == [k \in {"units"} |-> u]

CardamomInput(vname, dim, steps, Q, var, a) ==
    [vname |-> vname, tdim |-> dim, steps |-> steps, quantile |-> Q, var |-> var,
     attrs |-> a, names |-> {vname}]

JplInput(steps, N) ==
    [vname |-> <<>>, tdim |-> s_n_months, steps |-> steps, quantile |-> {},
     var |-> DefaultVar({}, 0), attrs |-> NoAttrs, names |-> N]

\* convert_cardamom on every time axis, with complete quantiles and units
CardamomTimeInputs ==
    {CardamomInput(s_gpp, s_time_fluxes, s, Levels, DefaultVar(Levels, Len(s)),
                   UnitsAttr(u_gC_m2_day)) :
        s \in SeqsUpTo(GregorianDates, MaxLen)}

\* convert_cardamom on every field of quantile values
CardamomValueInputs ==
    {CardamomInput(s_gpp, s_time_fluxes, DefaultSteps, Levels, v, UnitsAttr(u_gC_m2_day)) :
        v \in [Levels -> [1..Len(DefaultSteps) -> Vals]]}

\* convert_cardamom on every quantile axis, units attribute and dimension name
CardamomAxisInputs ==
    {CardamomInput(n, d, DefaultSteps, Q, DefaultVar(Q, Len(DefaultSteps)), a) :
        n \in {s_gpp, s_nbp}, d \in {s_time_fluxes, s_time}, Q \in SUBSET Levels,
        a \in {NoAttrs} \cup {UnitsAttr(u) : u \in InputUnits}}

\* cf_compliant on every start_date, with the variables of the JPL files
JplTimeInputs == {JplInput(s, JplNames) : s \in SeqsUpTo(StartDateRows, MaxLen)}

\* cf_compliant on every set of data variables
JplNameInputs == {JplInput(DefaultSteps, N) : N \in SUBSET JplNames}

Init ==
    /\ \/ /\ prog = "cardamom"
          /\ input \in CardamomTimeInputs \cup CardamomValueInputs \cup CardamomAxisInputs
          /\ pc = "c_rename"
          /\ names = {}
          /\ time = input.steps
       \/ /\ prog = "jpl"
          /\ input \in JplTimeInputs \cup JplNameInputs
          /\ pc = "j_t"
          /\ names = input.names
          /\ time = <<>>
    /\ err = "none"
    /\ tdim = input.tdim
    /\ time_bounds = <<>>
    /\ t = <<>>
    /\ tb = <<>>
    /\ attrs = [n \in names |-> NoAttrs]
    /\ vals = [n \in {} |-> <<>>]
    /\ gattrs = NoAttrs
    /\ file = NoFile

\* faulty variant of Raise: the exception is swallowed and the run goes on to
\* its last statement
RaiseSwallowed(e) ==
    /\ pc' = (IF prog = "cardamom" THEN "c_write" ELSE "j_return")
    /\ err' = e
    /\ UNCHANGED <<prog, input, tdim, time, time_bounds, t, tb, names, attrs, vals,
                   gattrs, file>>

\* an exception propagates out of the function: the run ends
Raise(e) ==
    /\ pc' = "failed"
    /\ err' = e
    /\ UNCHANGED <<prog, input, tdim, time, time_bounds, t, tb, names, attrs, vals,
                   gattrs, file>>

----------------------------------------------------------------------------
(* Helpers on mappings *)

\* f with key k bound to v (dict assignment)
Put(f, k, v) == [x \in DOMAIN f \cup {k} |-> IF x = k THEN v ELSE f[x]]

Square(x) == x * x

----------------------------------------------------------------------------
(* convert_cardamom(ds, vname), data/CARDAMOM/cardamom_to_cf.py *)

vname == input.vname

\* f"{vname}_uncert"
UncertName(v) == v \o s_uncert

\* attrs["units"].replace("gC", "g")
CardamomUnits(u) == Replace(u, s_gC, s_g)

\* faulty variant of CardamomUncert: the lower deviation taken from q75
CardamomUncertFromQ75(q25, q50, q75) == Sqrt(Square(q75 - q50) + Square(q25 - q75))

\* np.sqrt((q75 - q50) ** 2 + (q25 - q50) ** 2) at one point
CardamomUncert(q25, q50, q75) == Sqrt(Square(q75 - q50) + Square(q25 - q50))

\* var.sel(quantile=0.5) at point i
CardamomPrimary(var, i) == var[50][i]

\* faulty variant of CardamomStamp: the day read where the month belongs
CardamomStampDayAsMonth(d) == DatetimeNoLeap(d.year, d.day, 15)

\* cf.DatetimeNoLeap(t.dt.year, t.dt.month, 15)
CardamomStamp(d) == DatetimeNoLeap(d.year, d.month, 15)

\* cf.DatetimeNoLeap(t.dt.year, t.dt.month, 1)
CardamomLower(d) == DatetimeNoLeap(d.year, d.month, 1)

\* cf.DatetimeNoLeap(year + 1 if month == 12 else year, 1 if month == 12 else month + 1, 1)
CardamomUpper(d) ==
    DatetimeNoLeap(IF d.month = 12 THEN d.year + 1 ELSE d.year,
                   IF d.month = 12 THEN 1 ELSE d.month + 1,
                   1)

\* faulty variant of CardamomUncertAttrs: the units copied from the input variable
CardamomUncertAttrsRaw(v, a) ==
    [k \in {"long_name", "units"} |->
        IF k = "long_name" THEN v \o s_standard_error ELSE input.attrs["units"]]

\* the attrs given to the uncertainty variable
CardamomUncertAttrs(v, a) ==
    [k \in {"long_name", "units"} |->
        IF k = "long_name" THEN v \o s_standard_error ELSE a["units"]]

\* what to_netcdf stores under the given encoding
CardamomFile ==
    [path |-> s_CARDAMOM_ \o vname \o s_nc,
     time_units |-> s_days_since,
     time |-> [i \in 1..Len(time) |-> Date2Num(time[i])],
     time_bounds |-> [i \in 1..Len(time_bounds) |->
                         <<Date2Num(time_bounds[i][1]), Date2Num(time_bounds[i][2])>>],
     names |-> names,
     vals |-> vals,
     attrs |-> attrs,
     gattrs |-> gattrs]

\* ds = ds.rename(dict(time_fluxes="time"))
c_rename ==
    /\ prog = "cardamom" /\ pc = "c_rename"
    /\ IF tdim # s_time_fluxes
       THEN Raise("ValueError")
       ELSE /\ tdim' = s_time
            /\ pc' = "c_select"
            /\ UNCHANGED <<prog, err, input, time, time_bounds, t, tb, names, attrs,
                           vals, gattrs, file>>

\* out[vname] = var.sel(quantile=0.5).drop_vars("quantile")
c_select ==
    /\ prog = "cardamom" /\ pc = "c_select"
    /\ IF 50 \notin input.quantile
       THEN Raise("KeyError")
       ELSE /\ names' = names \cup {vname}
            /\ vals' = Put(vals, vname,
                           [i \in 1..Len(time) |-> CardamomPrimary(input.var, i)])
            /\ attrs' = Put(attrs, vname, input.attrs)
            /\ pc' = "c_units"
            /\ UNCHANGED <<prog, err, input, tdim, time, time_bounds, t, tb, gattrs, file>>

\* out[vname].attrs["units"] = out[vname].attrs["units"].replace("gC", "g")
c_units ==
    /\ prog = "cardamom" /\ pc = "c_units"
    /\ IF "units" \notin DOMAIN attrs[vname]
       THEN Raise("KeyError")
       ELSE /\ attrs' = Put(attrs, vname,
                            Put(attrs[vname], "units", CardamomUnits(attrs[vname]["units"])))
            /\ pc' = "c_uncert"
            /\ UNCHANGED <<prog, err, input, tdim, time, time_bounds, t, tb, names,
                           vals, gattrs, file>>

\* faulty variant of c_uncert: the levels reindexed, not selected, so that an
\* absent level yields NaN and no KeyError
c_uncert_reindex ==
    /\ prog = "cardamom" /\ pc = "c_uncert"
    /\ names' = names \cup {UncertName(vname)}
    /\ vals' = Put(vals, UncertName(vname),
                   [i \in 1..Len(time) |->
                       IF {75, 50, 25} \subseteq input.quantile
                       THEN CardamomUncert(input.var[25][i], input.var[50][i],
                                           input.var[75][i])
                       ELSE Sqrt(-1)])
    /\ attrs' = Put(attrs, UncertName(vname), NoAttrs)
    /\ pc' = "c_meta"
    /\ UNCHANGED <<prog, err, input, tdim, time, time_bounds, t, tb, gattrs, file>>

\* out[f"{vname}_uncert"] = np.sqrt(...)
c_uncert ==
    /\ prog = "cardamom" /\ pc = "c_uncert"
    /\ IF ~({75, 50, 25} \subseteq input.quantile)
       THEN Raise("KeyError")
       ELSE /\ names' = names \cup {UncertName(vname)}
            /\ vals' = Put(vals, UncertName(vname),
                           [i \in 1..Len(time) |->
                               CardamomUncert(input.var[25][i], input.var[50][i],
                                              input.var[75][i])])
            /\ attrs' = Put(attrs, UncertName(vname), NoAttrs)
            /\ pc' = "c_meta"
            /\ UNCHANGED <<prog, err, input, tdim, time, time_bounds, t, tb, gattrs, file>>

\* ancillary_variables on the primary, long_name and units on the uncertainty
c_meta ==
    /\ prog = "cardamom" /\ pc = "c_meta"
    /\ LET a == Put(attrs[vname], "ancillary_variables", UncertName(vname))
       IN  attrs' = Put(Put(attrs, vname, a), UncertName(vname),
                        CardamomUncertAttrs(vname, a))
    /\ pc' = "c_time"
    /\ UNCHANGED <<prog, err, input, tdim, time, time_bounds, t, tb, names, vals,
                   gattrs, file>>

\* out = xr.Dataset(out); out["time"] = [cf.DatetimeNoLeap(...) for t in out["time"]]
c_time ==
    /\ prog = "cardamom" /\ pc = "c_time"
    /\ LET new == [i \in 1..Len(time) |-> CardamomStamp(time[i])]
       IN  IF \E i \in 1..Len(new) : ~ValidNoLeap(new[i].year, new[i].month, new[i].day)
           THEN Raise("ValueError")
           ELSE /\ time' = new
                /\ pc' = "c_bounds"
                /\ UNCHANGED <<prog, err, input, tdim, time_bounds, t, tb, names, attrs,
                               vals, gattrs, file>>

\* out["time_bounds"] = xr.DataArray(...), read from the rewritten out["time"]
c_bounds ==
    /\ prog = "cardamom" /\ pc = "c_bounds"
    /\ LET new == [i \in 1..Len(time) |-> <<CardamomLower(time[i]), CardamomUpper(time[i])>>]
       IN  IF \E i \in 1..Len(new), j \in 1..2 :
                  ~ValidNoLeap(new[i][j].year, new[i][j].month, new[i][j].day)
           THEN Raise("ValueError")
           ELSE /\ time_bounds' = new
                /\ names' = names \cup {s_time_bounds}
                /\ attrs' = Put(attrs, s_time_bounds, NoAttrs)
                /\ pc' = "c_gattrs"
                /\ UNCHANGED <<prog, err, input, tdim, time, t, tb, vals, gattrs, file>>

\* out.attrs = {"title": "", "version": "", ...}
c_gattrs ==
    /\ prog = "cardamom" /\ pc = "c_gattrs"
    /\ gattrs' = [k \in {"title", "version", "institution", "source", "references"} |-> <<>>]
    /\ pc' = "c_write"
    /\ UNCHANGED <<prog, err, input, tdim, time, time_bounds, t, tb, names, attrs,
                   vals, file>>

\* out.to_netcdf(f"CARDAMOM_{vname}.nc", encoding=...)
c_write ==
    /\ prog = "cardamom" /\ pc = "c_write"
    /\ file' = CardamomFile
    /\ pc' = "done"
    /\ UNCHANGED <<prog, err, input, tdim, time, time_bounds, t, tb, names, attrs,
                   vals, gattrs>>

convert_cardamom ==
    \/ c_rename \/ c_select \/ c_units \/ c_uncert \/ c_meta
    \/ c_time \/ c_bounds \/ c_gattrs \/ c_write

----------------------------------------------------------------------------
(* cf_compliant(ds), data/CarbonFluxes/convert.py *)

\* faulty variant of JplStamp: the row unpacked as (y, _, m)
JplStampDayAsMonth(r) == DatetimeNoLeap(r.year, r.day, 15)

\* cf.DatetimeNoLeap(y, m, 15) for (y, m, _) in ds["start_date"]
JplStamp(r) == DatetimeNoLeap(r.year, r.month, 15)

\* cf.DatetimeNoLeap(y, m, d) for (y, m, d) in ds["start_date"]
JplLower(r) == DatetimeNoLeap(r.year, r.month, r.day)

\* cf.DatetimeNoLeap((y + 1) if m == 12 else y, 1 if m == 12 else (m + 1), d)
JplUpper(r) ==
    DatetimeNoLeap(IF r.month = 12 THEN r.year + 1 ELSE r.year,
                   IF r.month = 12 THEN 1 ELSE r.month + 1,
                   r.day)

\* faulty variant of JplUnits: the per-day units of the CARDAMOM product
JplUnitsPerDay == u_g_m2_day

\* the units every variable is given
JplUnits == s_jpl_units

\* key.replace("land", "nbp").replace("ocean", "fgco2")
JplRename(key) == Replace(Replace(key, s_land, s_nbp), s_ocean, s_fgco2)

\* f"{var}_std"
StdName(var) == var \o s_std

\* faulty variant of JplHasStd: var looked up where std is meant
JplHasStdSelf(var, N) == var \in N

\* std in ds
JplHasStd(var, N) == StdName(var) \in N

\* the attrs of variable n after the loop over the variables N
JplLinked(n, N, a) ==
    LET a1 == IF JplHasStd(n, N)
              THEN Put(a[n], "ancillary_variables", StdName(n))
              ELSE a[n]
    IN  IF \E v \in N : JplHasStd(v, N) /\ StdName(v) = n
        THEN Put(a1, "standard_name",
                 (CHOOSE v \in N : StdName(v) = n) \o s_standard_error)
        ELSE a1

\* t = np.array([cf.DatetimeNoLeap(y, m, 15) ...])
j_t ==
    /\ prog = "jpl" /\ pc = "j_t"
    /\ LET new == [i \in 1..Len(input.steps) |-> JplStamp(input.steps[i])]
       IN  IF \E i \in 1..Len(new) : ~ValidNoLeap(new[i].year, new[i].month, new[i].day)
           THEN Raise("ValueError")
           ELSE /\ t' = new
                /\ pc' = "j_tb"
                /\ UNCHANGED <<prog, err, input, tdim, time, time_bounds, tb, names,
                               attrs, vals, gattrs, file>>

\* tb = np.array([[lower ...], [upper ...]]).T
j_tb ==
    /\ prog = "jpl" /\ pc = "j_tb"
    /\ LET new == [i \in 1..Len(input.steps) |->
                      <<JplLower(input.steps[i]), JplUpper(input.steps[i])>>]
       IN  IF \E i \in 1..Len(new), j \in 1..2 :
                  ~ValidNoLeap(new[i][j].year, new[i][j].month, new[i][j].day)
           THEN Raise("ValueError")
           ELSE /\ tb' = new
                /\ pc' = "j_assign"
                /\ UNCHANGED <<prog, err, input, tdim, time, time_bounds, t, names,
                               attrs, vals, gattrs, file>>

\* ds.assign_coords({"time": t}).rename({"n_months": "time"}).drop_vars("start_date")
j_assign ==
    /\ prog = "jpl" /\ pc = "j_assign"
    /\ time' = t
    /\ tdim' = s_time
    /\ pc' = "j_units"
    /\ UNCHANGED <<prog, err, input, time_bounds, t, tb, names, attrs, vals, gattrs, file>>

\* for var in ds: ds[var].attrs["units"] = "g m-2 year-1"
j_units ==
    /\ prog = "jpl" /\ pc = "j_units"
    /\ attrs' = [n \in names |-> Put(attrs[n], "units", JplUnits)]
    /\ pc' = "j_set_tb"
    /\ UNCHANGED <<prog, err, input, tdim, time, time_bounds, t, tb, names, vals,
                   gattrs, file>>

\* ds["time_bounds"] = (("time", "nb"), tb)
j_set_tb ==
    /\ prog = "jpl" /\ pc = "j_set_tb"
    /\ time_bounds' = tb
    /\ names' = names \cup {s_time_bounds}
    /\ attrs' = Put(attrs, s_time_bounds, NoAttrs)
    /\ pc' = "j_rename"
    /\ UNCHANGED <<prog, err, input, tdim, time, t, tb, vals, gattrs, file>>

\* ds = ds.rename({key: key.replace(...) for key in ds})
j_rename ==
    /\ prog = "jpl" /\ pc = "j_rename"
    /\ names' = {JplRename(k) : k \in names}
    /\ attrs' = [n \in {JplRename(k) : k \in names} |->
                    attrs[CHOOSE k \in names : JplRename(k) = n]]
    /\ pc' = "j_std"
    /\ UNCHANGED <<prog, err, input, tdim, time, time_bounds, t, tb, vals, gattrs, file>>

\* for var in ds: if f"{var}_std" in ds: link the two
j_std ==
    /\ prog = "jpl" /\ pc = "j_std"
    /\ attrs' = [n \in names |-> JplLinked(n, names, attrs)]
    /\ pc' = "j_return"
    /\ UNCHANGED <<prog, err, input, tdim, time, time_bounds, t, tb, names, vals,
                   gattrs, file>>

\* return ds.pint.quantify()
j_return ==
    /\ prog = "jpl" /\ pc = "j_return"
    /\ pc' = "done"
    /\ UNCHANGED <<prog, err, input, tdim, time, time_bounds, t, tb, names, attrs,
                   vals, gattrs, file>>

cf_compliant ==
    \/ j_t \/ j_tb \/ j_assign \/ j_units \/ j_set_tb \/ j_rename \/ j_std \/ j_return

----------------------------------------------------------------------------

Next == convert_cardamom \/ cf_compliant

Spec == Init /\ [][Next]_vars

----------------------------------------------------------------------------
(* Vocabulary of the properties *)

Steps == input.steps

NSteps == Len(input.steps)

\* the converter returned (convert_cardamom: after writing its file)
Done == pc = "done"

\* months since year 0 of a date
MonthIndex(d) == d.year * 12 + d.month

\* order of dates
DateLT(a, b) ==
    \/ a.year < b.year
    \/ a.year = b.year /\ a.month < b.month
    \/ a.year = b.year /\ a.month = b.month /\ a.day < b.day

\* consecutive input steps i, i+1 lie in consecutive calendar months
MonthlyCadence ==
    \A i \in 1..(NSteps - 1) : MonthIndex(Steps[i + 1]) = MonthIndex(Steps[i]) + 1

FirstOfMonth(s) == [year |-> s.year, month |-> s.month, day |-> 1]

FirstOfNextMonth(s) ==
    IF s.month < 12
    THEN [year |-> s.year, month |-> s.month + 1, day |-> 1]
    ELSE [year |-> s.year + 1, month |-> 1, day |-> 1]

\* the bounds pair of every step is [first of its month, first of the next month)
BoundsAreMonths ==
    /\ Len(time_bounds) = NSteps
    /\ \A i \in 1..NSteps :
          time_bounds[i] = <<FirstOfMonth(Steps[i]), FirstOfNextMonth(Steps[i])>>

----------------------------------------------------------------------------
(* C1 *)

\* C1: for every input step both converters produce the bounds pair
\* [(year, month, 1), first day of the next month), December rolling over to
\* January of year + 1, whatever the day of the input step.
C1_BoundsAreMonthBounds == Done => BoundsAreMonths

\* C1, the half that holds: convert_cardamom produces the month bounds of every
\* step whatever its day.
C1_CardamomBoundsAreMonthBounds == (Done /\ prog = "cardamom") => BoundsAreMonths

\* C1, the failing case: cf_compliant keeps the day of the input step in both bounds.
C1_JplBoundsKeepDay ==
    (Done /\ prog = "jpl") =>
        \A i \in 1..NSteps :
            /\ time_bounds[i][1] = [year |-> Steps[i].year, month |-> Steps[i].month,
                                    day |-> Steps[i].day]
            /\ time_bounds[i][2].day = Steps[i].day

----------------------------------------------------------------------------
(* C2 *)

\* C2: the output time axis is the element-by-element image of the input steps
\* under (year, month, any day) -> (year, month, 15): same length, same order,
\* and the year and month read back from the i-th timestamp (for
\* convert_cardamom also from the value encoded in the file) are those of the
\* i-th input step.
C2_TimeAxisIsImage ==
    Done =>
        /\ Len(time) = NSteps
        /\ \A i \in 1..NSteps :
              time[i] = [year |-> Steps[i].year, month |-> Steps[i].month, day |-> 15]
        /\ prog = "cardamom" =>
              /\ Len(file.time) = NSteps
              /\ \A i \in 1..NSteps :
                    /\ Num2Date(file.time[i]).year = Steps[i].year
                    /\ Num2Date(file.time[i]).month = Steps[i].month
                    /\ Num2Date(file.time[i]).day = 15

\* two steps given out of order, neither on day 15, converted and written
C2_Witness ==
    /\ Done /\ prog = "cardamom"
    /\ NSteps = 2
    /\ Steps[1] = [year |-> 2020, month |-> 12, day |-> 31]
    /\ Steps[2] = [year |-> 2019, month |-> 2, day |-> 1]
    /\ Len(file.time) = 2

\* C2 on the ensemble path again, for a December step
C2_JplWitness ==
    /\ Done /\ prog = "jpl"
    /\ NSteps = 2
    /\ Steps[1] = [year |-> 2020, month |-> 12, day |-> 16]
    /\ time[1] = [year |-> 2020, month |-> 12, day |-> 15]

----------------------------------------------------------------------------
(* C3 *)

\* consecutive output timestamps are strictly increasing, in consecutive months
TimeAxisMonthly ==
    \A i \in 1..(Len(time) - 1) :
        /\ DateLT(time[i], time[i + 1])
        /\ MonthIndex(time[i + 1]) = MonthIndex(time[i]) + 1

\* C3 as stated: for every input the converters accept, the output time axis
\* is strictly increasing with no gaps and no duplicates.
C3_Original == Done => TimeAxisMonthly

\* C3 amended: for every accepted input whose consecutive steps lie in
\* consecutive calendar months, the output time axis is strictly increasing
\* with consecutive timestamps in consecutive calendar months.
C3_MonthlyInputGivesMonthlyAxis == (Done /\ MonthlyCadence) => TimeAxisMonthly

\* a monthly input across the year end, with differing days, converted
C3_Witness ==
    /\ Done
    /\ NSteps = 2
    /\ Steps[1] = [year |-> 2019, month |-> 12, day |-> 16]
    /\ Steps[2] = [year |-> 2020, month |-> 1, day |-> 1]
    /\ Len(time) = 2

----------------------------------------------------------------------------
(* C4 *)

\* every interval is non-empty and each ends where the next begins
BoundsContiguous ==
    /\ \A i \in 1..Len(time_bounds) : DateLT(time_bounds[i][1], time_bounds[i][2])
    /\ \A i \in 1..(Len(time_bounds) - 1) : time_bounds[i][2] = time_bounds[i + 1][1]

\* C4: in the output time_bounds the upper bound of step i equals the lower
\* bound of step i+1 and every lower bound is strictly earlier than its upper
\* bound; read for the inputs it can be meant for, those with one step per
\* consecutive month.
C4_BoundsContiguous == (Done /\ MonthlyCadence) => BoundsContiguous

\* C4, the half that holds: on a monthly input convert_cardamom's bounds are
\* contiguous and non-empty.
C4_CardamomBoundsContiguous ==
    (Done /\ prog = "cardamom" /\ MonthlyCadence) => BoundsContiguous

----------------------------------------------------------------------------
(* C5 *)

----------------------------------------------------------------------------
(* C6 *)

\* the name of the uncertainty companion of variable v in this converter
Companion(v) == IF prog = "cardamom" THEN UncertName(v) ELSE StdName(v)

\* the attribute of the companion that names its primary variable
ReverseKey == IF prog = "cardamom" THEN "long_name" ELSE "standard_name"

\* the data variables the converter must hand out
OutputNames ==
    IF prog = "cardamom"
    THEN {vname, UncertName(vname), s_time_bounds}
    ELSE {Replace(Replace(n, s_land, s_nbp), s_ocean, s_fgco2) : n \in input.names}
         \cup {s_time_bounds}

\* C6: after conversion every primary variable with an uncertainty companion in
\* the output ("{v}_uncert" in convert_cardamom, "{v}_std" in cf_compliant, v the
\* name after the land->nbp / ocean->fgco2 rename) names exactly that companion
\* in ancillary_variables, the companion is named "{v} standard_error", and no
\* variable without a companion has an ancillary_variables attribute.
C6_AncillaryLinks ==
    Done =>
        /\ names = OutputNames
        /\ DOMAIN attrs = names
        /\ \A v \in names :
              IF Companion(v) \in names
              THEN /\ "ancillary_variables" \in DOMAIN attrs[v]
                   /\ attrs[v]["ancillary_variables"] = Companion(v)
                   /\ ReverseKey \in DOMAIN attrs[Companion(v)]
                   /\ attrs[Companion(v)][ReverseKey] = v \o s_standard_error
              ELSE "ancillary_variables" \notin DOMAIN attrs[v]

\* cf_compliant on land, land_std and net: nbp is linked to nbp_std, net to nothing
C6_Witness ==
    /\ Done /\ prog = "jpl"
    /\ input.names = {s_land, StdName(s_land), s_net}
    /\ attrs[s_nbp]["ancillary_variables"] = <<"n","b","p","_","s","t","d">>
    /\ "standard_name" \in DOMAIN attrs[StdName(s_nbp)]
    /\ "ancillary_variables" \notin DOMAIN attrs[s_net]

\* C6 on the quantile path: gpp is linked to gpp_uncert
C6_CardamomWitness ==
    /\ Done /\ prog = "cardamom" /\ vname = s_gpp
    /\ attrs[s_gpp]["ancillary_variables"] = <<"g","p","p","_","u","n","c","e","r","t">>
    /\ attrs[UncertName(s_gpp)]["long_name"] = s_gpp \o s_standard_error

----------------------------------------------------------------------------
(* C7 *)

\* C7: in convert_cardamom the primary variable's units are the input units
\* with every "gC" rewritten to "g" ("gC m-2 day-1" becomes "g m-2 day-1"), and
\* the uncertainty variable's units equal the primary's units after the rewrite,
\* never the raw input units.
C7_UnitsRewritten ==
    (prog = "cardamom" /\ pc \in {"c_time", "c_bounds", "c_gattrs", "c_write", "done"}) =>
        LET raw == input.attrs["units"]
            new == attrs[vname]["units"]
        IN  /\ raw = u_gC_m2_day => new = u_g_m2_day
            /\ raw = u_kgC_gC => new = <<"k","g"," ","g","-","1">>
            /\ raw \in {u_g_m2_day, u_mol} => new = raw
            /\ new = Replace(raw, s_gC, s_g)
            /\ attrs[UncertName(vname)]["units"] = new
            /\ new # raw => attrs[UncertName(vname)]["units"] # raw
            /\ Done => file.attrs = attrs

\* "gC m-2 day-1" converted and written
C7_Witness ==
    /\ Done /\ prog = "cardamom"
    /\ input.attrs["units"] = u_gC_m2_day
    /\ file.attrs[vname]["units"] = u_g_m2_day
    /\ file.attrs[UncertName(vname)]["units"] = u_g_m2_day

----------------------------------------------------------------------------
(* C8 *)

\* the quantile axis lacks one of 0.25, 0.5, 0.75
LacksLevel == ~(Levels \subseteq input.quantile)

\* C8 as stated: on the quantile path, an input whose quantile axis lacks any of
\* 0.25, 0.5, 0.75 fails with MissingAxisError.
C8_Original ==
    (prog = "cardamom" /\ input.tdim = s_time_fluxes /\ LacksLevel
        /\ pc \in {"done", "failed"})
    => (pc = "failed" /\ err = "MissingAxisError")

\* C8 amended: on the quantile path, an input with the time_fluxes dimension
\* whose quantile axis lacks any of 0.25, 0.5, 0.75 fails with the KeyError of
\* the label lookup (the code defines no MissingAxisError), at the latest in the
\* uncertainty step, and no output file is written.
C8_MissingLevelIsKeyError ==
    (prog = "cardamom" /\ input.tdim = s_time_fluxes /\ LacksLevel) =>
        /\ pc \in {"c_rename", "c_select", "c_units", "c_uncert", "failed"}
        /\ pc = "failed" => err = "KeyError"
        /\ pc # "failed" => err = "none"
        /\ file = NoFile

\* 0.5 and 0.75 present, 0.25 absent, units present: the run failed
C8_Witness ==
    /\ prog = "cardamom" /\ pc = "failed" /\ err = "KeyError"
    /\ input.tdim = s_time_fluxes
    /\ input.quantile = {50, 75}
    /\ "units" \in DOMAIN input.attrs
    /\ vname \in DOMAIN vals

----------------------------------------------------------------------------
(* C9 *)

AfterUnits == pc \in {"j_set_tb", "j_rename", "j_std", "j_return", "done"}

----------------------------------------------------------------------------
(* C10 *)

Written == file # NoFile

\* every step of convert_cardamom before the write has left its result
AllStepsSucceeded ==
    /\ err = "none"
    /\ tdim = s_time
    /\ {vname, UncertName(vname)} \subseteq DOMAIN vals
    /\ attrs[vname]["units"] = CardamomUnits(input.attrs["units"])
    /\ attrs[vname]["ancillary_variables"] = UncertName(vname)
    /\ "long_name" \in DOMAIN attrs[UncertName(vname)]
    /\ Len(time) = NSteps /\ \A i \in 1..NSteps : time[i].day = 15
    /\ Len(time_bounds) = NSteps
    /\ DOMAIN gattrs = {"title", "version", "institution", "source", "references"}

\* C10: convert_cardamom writes its output file only as the last step, after
\* the rename, median selection, unit rewrite, uncertainty derivation, metadata
\* linkage, time and bounds reconstruction and global attributes have all
\* succeeded; a failing step ends the run, which writes no file and never resumes.
C10_WriteLastOrNothing ==
    /\ [](prog = "cardamom" =>
            /\ Written => (pc = "done" /\ AllStepsSucceeded /\ file = CardamomFile)
            /\ pc = "done" => Written
            /\ err # "none" <=> pc = "failed")
    /\ [][prog = "cardamom" =>
            /\ file' # file => (pc = "c_write" /\ pc' = "done")
            /\ pc = "failed" => (pc' = "failed" /\ file' = file)
            /\ pc = "done" => pc' = "done"]_vars

\* a run that selected the median and derived nothing more: failed, no file
C10_Witness ==
    /\ prog = "cardamom" /\ pc = "failed"
    /\ vname \in DOMAIN vals
    /\ UncertName(vname) \notin DOMAIN vals
    /\ ~Written

\* C10, the success case: the file holds the finished dataset
C10_WrittenWitness == prog = "cardamom" /\ pc = "done" /\ Written /\ NSteps = 2

====
